---- MODULE Spec2Model ----
(***************************************************************************)
(* Session mailbox relay (receive-response / get-updates over a KV store), *)
(* the Pusher ingress, the polling chat client and the Supabase chat       *)
(* client with optimistic sends.                                           *)
(*                                                                         *)
(* A handler is split at its store calls: each call is one step, so two    *)
(* requests interleave exactly where the code awaits the store.  What a    *)
(* handler does before its first store call reads no shared state and is   *)
(* part of the step of that call.                                          *)
(***************************************************************************)
EXTENDS Integers, Sequences, FiniteSets, TLC

VARIABLES
    kvEnv,        \* process.env as the KV handlers read it
    store,        \* the KV store: key -> [kind, items, exp]
    now,          \* Date.now() on the server
    ing,          \* receive-response (KV) requests, in call order
    fet,          \* get-updates requests, in call order
    ideal,        \* history: per key, payloads accepted and not yet returned
    messages,     \* polling client: the visible message list
    poller,       \* polling client: the interval, isLoading, the webhook calls
    pusherEnv,    \* whether the four PUSHER_* variables are set
    psh,          \* receive-response (Pusher) requests, in call order
    channel,      \* the events published to Pusher, in order
    secretEnv,    \* process.env.N8N_CALLBACK_SECRET ("" when unset)
    cbk,          \* n8n callback requests, in call order
    chats,        \* Supabase client: the visible list (useState chats)
    sentMessageIds, \* sentMessageIdsRef.current
    sending,      \* useState sending
    loading,      \* useState loading
    clearing,     \* useState clearing
    error,        \* useState error
    subscribed,   \* the realtime channel has joined
    rows,         \* the chats table, rows of this user in insertion order
    events,       \* INSERT events on their way to the client, in order
    send,         \* the handleSend call in progress
    load,         \* the fetchChats call of the mount effect
    clr,          \* the handleClearChats call in progress
    clock,        \* Date.now() in the browser
    nextId,       \* history: how many ids uuidv4() has handed out
    calls,        \* history: handleSend, callback and handleClearChats calls so far
    last          \* history: the client handler that ran last

kvVars == <<kvEnv, store, now, ing, fet, ideal, messages, poller>>

pushVars == <<pusherEnv, psh, channel, secretEnv, cbk>>

clientVars ==
    <<chats, sentMessageIds, sending, loading, clearing, error, subscribed,
      rows, events, send, load, clr, clock, nextId, calls, last>>

vars == <<kvVars, pushVars, clientVars>>

---------------------------------------------------------------------------
(* Bounds *)

MaxIngress == 2     \* ingress calls in one run
MaxFetch == 3       \* get-updates calls in one run
MaxIdLen == 3       \* longest sessionId drawn as an input
MaxCalls == 3       \* sends, callback inserts and clears in one run
MaxTtlCalls == 3    \* ingress and get-updates calls in one run with a clock
MaxTicks == 3       \* clock steps in one run
MaxSessionCalls == 3 \* ingress and get-updates calls in one run with several sessions
MaxLogged == 2      \* callback inserts before the client mounts
MaxDeployedCalls == 4 \* Pusher ingress and get-updates calls in one run
MaxFiles == 2       \* files in one callback batch
MaxNameLen == 4      \* longest filename drawn as an input
MaxFaultCalls == 4   \* ingress and get-updates calls in one run with failing deletes
MaxPollingCalls == 4 \* sends, worker replies and recorded polls in one run of the polling client

(* Program constants *)

MESSAGE_TTL == 300          \* seconds
MinSessionIdLength == 3
HistoryLimit == 100         \* .limit(100)

---------------------------------------------------------------------------
(* Strings are sequences of characters over a small alphabet: one letter,  *)
(* one punctuation mark, one blank.                                        *)

Alphabet == {"a", "-", " "}

IsAlnum(c) == c = "a"

IsSpace(c) == c = " "

Strings(n) == UNION {[1..k -> Alphabet] : k \in 0..n}

RECURSIVE TrimStart(_)
TrimStart(s) ==
    IF Len(s) > 0 /\ IsSpace(Head(s)) THEN TrimStart(Tail(s)) ELSE s

RECURSIVE TrimEnd(_)
TrimEnd(s) ==
    IF Len(s) > 0 /\ IsSpace(s[Len(s)])
    THEN TrimEnd(SubSeq(s, 1, Len(s) - 1))
    ELSE s

Trim(s) == TrimEnd(TrimStart(s))

\* /[a-zA-Z0-9]/.test(s)
HasAlnum(s) == \E i \in 1..Len(s) : IsAlnum(s[i])

\* A request field: a string, a missing field, or a value of another type.
Undefined == [kind |-> "undefined", val |-> <<>>]
NumberVal == [kind |-> "number", val |-> <<>>]
Str(s) == [kind |-> "string", val |-> s]

\* !x for a field
Falsy(x) == x.kind = "undefined" \/ (x.kind = "string" /\ Len(x.val) = 0)

\* !sessionId || typeof sessionId !== 'string' || sessionId.trim().length === 0
SessionIdMissing(sid) ==
    Falsy(sid) \/ sid.kind # "string" \/ Len(Trim(sid.val)) = 0

SessionIdTooShort(sid) == Len(sid.val) < MinSessionIdLength

\* sessionId.length < 3 || !/[a-zA-Z0-9]/.test(sessionId)
SessionIdBadFormat(sid) ==
    Len(sid.val) < MinSessionIdLength \/ ~HasAlnum(sid.val)

ReplyFalsy(reply) == Falsy(reply)

\* !reply || typeof reply !== 'string'
ReplyInvalid(reply) == Falsy(reply) \/ reply.kind # "string"

KeyShared(s) == <<"chat:">>

\* `chat:${sessionId.trim()}`
Key(s) == <<"chat:">> \o Trim(s)

\* isKVConfigured() of receive-response
IngressKVConfigured(env) == env.kvUrl /\ env.kvToken

\* isKVConfigured() of get-updates
FetchKVConfigured(env) ==
    (env.kvUrl /\ env.kvToken) \/ (env.upstashUrl /\ env.upstashToken)

EnvNone == [kvUrl |-> FALSE, kvToken |-> FALSE,
            upstashUrl |-> FALSE, upstashToken |-> FALSE]
EnvVercel == [kvUrl |-> TRUE, kvToken |-> TRUE,
              upstashUrl |-> FALSE, upstashToken |-> FALSE]

\* The x-n8n-secret header and N8N_CALLBACK_SECRET: the secret, another
\* string, an unset variable, a request without the header.
Secret == "s1"

OtherSecret == "s2"

Unset == ""

NoHeader == "null"

SecretHeaders == {NoHeader, Secret, OtherSecret}

---------------------------------------------------------------------------
(* The KV store *)

Null == [kind |-> "null", items |-> <<>>]

\* kv.get(key) of a store that never expires a key
KvGetStale(st, key, t) ==
    IF key \in DOMAIN st
    THEN [kind |-> st[key].kind, items |-> st[key].items]
    ELSE Null

\* kv.get(key): the value, or null for a key that is absent or expired
KvGet(st, key, t) ==
    IF key \in DOMAIN st /\ st[key].exp > t
    THEN [kind |-> st[key].kind, items |-> st[key].items]
    ELSE Null

\* kv.set(key, value) that keeps the expiry a key already has
KvSetKeepExpiry(st, key, items, exp) ==
    [k \in DOMAIN st \cup {key} |->
        IF k = key
        THEN [kind |-> "list", items |-> items,
              exp |-> IF key \in DOMAIN st THEN st[key].exp ELSE exp]
        ELSE st[k]]

\* kv.set(key, value, {ex})
KvSet(st, key, items, exp) ==
    [k \in DOMAIN st \cup {key} |->
        IF k = key THEN [kind |-> "list", items |-> items, exp |-> exp]
        ELSE st[k]]

KvDelNothing(st, key) == st

\* kv.del(key)
KvDel(st, key) == [k \in DOMAIN st \ {key} |-> st[k]]

AsItems(v) == v.items

\* null / undefined / not an array -> []
AsArray(v) == IF v.kind = "list" THEN v.items ELSE <<>>

\* existingMessages.push(message)
Push(existing, msg) == Append(existing, msg)

\* messages.map(msg => ({ reply, timestamp }))   (rid: history, the call it came from)
Replies(msgs) ==
    [i \in 1..Len(msgs) |->
        [reply |-> msgs[i].reply, timestamp |-> msgs[i].timestamp, rid |-> msgs[i].rid]]

---------------------------------------------------------------------------
(* receive-response over the KV store *)

IngInFlight(r) == r.pc = "set"

FetInFlight(r) == r.pc = "del"

\* The handler up to the store: 0 means "go on to the store".
IngressValidate(req, env) ==
    IF req.method = "OPTIONS" THEN 200
    ELSE IF req.method # "POST" THEN 405
    ELSE IF SessionIdMissing(req.sessionId) THEN 400
    ELSE IF ReplyInvalid(req.reply) THEN 400
    ELSE IF SessionIdBadFormat(req.sessionId) THEN 400
    ELSE IF ~IngressKVConfigured(env) THEN 503
    ELSE 0

\* history: the requests in flight on `key` raced an ingress / a fetch
MarkIng(rs, key) ==
    [i \in 1..Len(rs) |->
        IF (IngInFlight(rs[i]) \/ FetInFlight(rs[i])) /\ rs[i].key = key
        THEN [rs[i] EXCEPT !.withIng = TRUE] ELSE rs[i]]

MarkFet(rs, key) ==
    [i \in 1..Len(rs) |->
        IF (IngInFlight(rs[i]) \/ FetInFlight(rs[i])) /\ rs[i].key = key
        THEN [rs[i] EXCEPT !.withFet = TRUE] ELSE rs[i]]

AnyIngInFlight(key) ==
    \E i \in 1..Len(ing) : IngInFlight(ing[i]) /\ ing[i].key = key

AnyFetInFlight(key) ==
    \E j \in 1..Len(fet) : FetInFlight(fet[j]) /\ fet[j].key = key

\* How the store answers a call: it answers, getKV() fails before the call
\* (reads only), the call exceeds KV_OPERATION_TIMEOUT, the call throws.
ReadOutcomes == {"ok", "unavailable", "timeout", "error"}

WriteOutcomes == {"ok", "timeout", "error"}

\* getKV() and the read, lines 130-177: the status that ends the request, or 0.
IngressGetStatus(outcome) ==
    IF outcome \in {"unavailable", "timeout"} THEN 503 ELSE 0

\* The kind of value the read handed back ("none": no read, or no answer).
Retrieved(made, outcome, key) ==
    IF made /\ outcome = "ok" THEN KvGet(store, key, now).kind ELSE "none"

\* existingMessages after the read, lines 152-177
IngressExisting(outcome, retrieved) ==
    IF outcome = "ok" THEN AsArray(retrieved) ELSE <<>>

\* A request reaches the handler, which validates it and reads the bucket:
\* lines 62-177.  `outcome` is how the store answers the read.
IngressRequest(req, outcome) ==
    LET v == IngressValidate(req, kvEnv)
        key == IF v = 0 THEN Key(req.sessionId.val) ELSE <<>>
        st == IF v = 0 THEN IngressGetStatus(outcome) ELSE v
        rec == [method |-> req.method, secret |-> req.secret,
                sessionId |-> req.sessionId,
                reply |-> req.reply, key |-> key,
                pc |-> IF st = 0 THEN "set" ELSE "done",
                existing |-> IF st = 0
                             THEN IngressExisting(outcome, KvGet(store, key, now))
                             ELSE <<>>,
                status |-> st, success |-> FALSE,
                ops |-> IF v = 0 /\ outcome # "unavailable" THEN 1 ELSE 0,
                get |-> IF v = 0 THEN outcome ELSE "none",
                retrieved |-> Retrieved(v = 0, outcome, key),
                put |-> "none",
                timestamp |-> now, setAt |-> 0,
                withIng |-> st = 0 /\ AnyIngInFlight(key),
                withFet |-> st = 0 /\ AnyFetInFlight(key)]
    IN  /\ ing' = Append(IF st = 0 THEN MarkIng(ing, key) ELSE ing, rec)
        /\ fet' = IF st = 0 THEN MarkIng(fet, key) ELSE fet
        /\ UNCHANGED <<kvEnv, store, now, ideal, messages, poller,
                   pushVars, clientVars>>

\* message, lines 118-123   (rid: history, the call that made it)
Message(r, rid) ==
    [sessionId |-> Trim(r.sessionId.val), reply |-> r.reply.val,
     timestamp |-> r.timestamp, rid |-> rid, null |-> FALSE]

\* history: payload `rid` was accepted for `key`
Accept(key, rid) ==
    [k \in DOMAIN ideal \cup {key} |->
        IF k = key
        THEN (IF k \in DOMAIN ideal THEN ideal[k] ELSE <<>>) \o <<rid>>
        ELSE ideal[k]]

\* The status after the write, lines 183-213.
IngressSetStatus(outcome) ==
    IF outcome = "ok" THEN 200
    ELSE IF outcome = "timeout" THEN 503
    ELSE 500

\* existingMessages.push(message); await kvStore.set(...); the response:
\* lines 179-213.  landed: the store carried the write out (a call that
\* timed out is not cancelled, it may still do so).
IngressSet(i, outcome, landed) ==
    /\ ing[i].pc = "set"
    /\ outcome = "ok" => landed
    /\ outcome = "error" => ~landed
    /\ store' = IF landed
                THEN KvSet(store, ing[i].key,
                           Push(ing[i].existing, Message(ing[i], i)),
                           now + MESSAGE_TTL)
                ELSE store
    /\ ing' = [ing EXCEPT ![i].status = IngressSetStatus(outcome),
                          ![i].success = (outcome = "ok"),
                          ![i].ops = @ + 1, ![i].existing = <<>>,
                          ![i].put = outcome, ![i].setAt = now,
                          ![i].pc = "done"]
    /\ ideal' = IF outcome = "ok" THEN Accept(ing[i].key, i) ELSE ideal
    /\ UNCHANGED <<kvEnv, now, fet, messages, poller,
                   pushVars, clientVars>>

---------------------------------------------------------------------------
(* get-updates *)

FetchValidate(req, env) ==
    IF req.method = "OPTIONS" THEN 200
    ELSE IF req.method # "GET" THEN 405
    ELSE IF SessionIdMissing(req.sessionId) THEN 400
    ELSE IF SessionIdBadFormat(req.sessionId) THEN 400
    ELSE IF ~FetchKVConfigured(env) THEN 503
    ELSE 0

FetchBodyEmpty(st, msgs) ==
    [status |-> st, success |-> st = 200, hasMessages |-> TRUE,
     replies |-> <<>>, count |-> 0]

FetchBodyCountZero(st, msgs) ==
    [status |-> st, success |-> st = 200, hasMessages |-> TRUE,
     replies |-> Replies(msgs), count |-> 0]

\* The body of the answer after the read: messages: replies, count:
\* replies.length, lines 191-201.
FetchBody(st, msgs) ==
    [status |-> st, success |-> st = 200, hasMessages |-> TRUE,
     replies |-> Replies(msgs), count |-> Len(Replies(msgs))]

\* The bodies written out with messages: [] and count: 0: lines 83-88, 94-99,
\* 163-168, 171-175 (status 200) and 214-220.
FetchLiteral(st) ==
    [status |-> st, success |-> st = 200, hasMessages |-> TRUE,
     replies |-> <<>>, count |-> 0]

\* messages.map(msg => ...) throws on an element that is null: line 192.
MapThrows(msgs) == \E i \in 1..Len(msgs) : msgs[i].null

\* The bodies without them: OPTIONS (no body) and 405.
FetchBare(st) ==
    [status |-> st, success |-> FALSE, hasMessages |-> FALSE,
     replies |-> <<>>, count |-> 0]

Expected(key) == IF key \in DOMAIN ideal THEN ideal[key] ELSE <<>>

\* history: the payloads accepted for `key` have been handed out
Taken(key) == [k \in DOMAIN ideal \ {key} |-> ideal[k]]

\* The outcome of the read, lines 153-174: the status that ends the request, or
\* 0 to go on with the messages read.
FetchGetStatus(outcome) ==
    IF outcome \in {"unavailable", "timeout"} THEN 503
    ELSE IF outcome = "error" THEN 200
    ELSE 0

\* A request reaches the handler, which validates it, reads the bucket and,
\* with nothing to clear, answers: lines 61-174, 191-201.
FetchRequest(req, client, outcome) ==
    LET v == FetchValidate(req, kvEnv)
        key == IF v = 0 THEN Key(req.sessionId.val) ELSE <<>>
        g == IF v = 0 THEN FetchGetStatus(outcome) ELSE v
        msgs == IF g = 0 THEN AsArray(KvGet(store, key, now)) ELSE <<>>
        clear == g = 0 /\ Len(msgs) > 0
        answered == v = 0 /\ outcome = "ok" /\ ~clear
        rec == [method |-> req.method, sessionId |-> req.sessionId,
                client |-> client, key |-> key,
                pc |-> IF clear THEN "del" ELSE "resp",
                msgs |-> msgs,
                body |-> IF req.method \in {"OPTIONS"} \/ v = 405
                         THEN FetchBare(v)
                         ELSE IF g = 0 THEN FetchBody(200, <<>>)
                         ELSE FetchLiteral(g),
                expected |-> IF answered THEN Expected(key) ELSE <<>>,
                ops |-> IF v = 0 /\ outcome # "unavailable" THEN 1 ELSE 0,
                get |-> IF v = 0 THEN outcome ELSE "none",
                retrieved |-> Retrieved(v = 0, outcome, key),
                put |-> "none", cleared |-> FALSE, at |-> now, fate |-> "none",
                withIng |-> clear /\ AnyIngInFlight(key),
                withFet |-> clear /\ AnyFetInFlight(key)]
    IN  /\ fet' = Append(IF clear THEN MarkFet(fet, key) ELSE fet, rec)
        /\ ing' = IF clear THEN MarkFet(ing, key) ELSE ing
        /\ ideal' = IF answered THEN Taken(key) ELSE ideal
        /\ UNCHANGED <<kvEnv, store, now, messages, poller,
                   pushVars, clientVars>>

\* await kvStore.del(key), whose failure is caught and logged, then the
\* response: lines 176-201.  landed: the store carried the delete out.
FetchDel(j, outcome, landed) ==
    /\ fet[j].pc = "del"
    /\ outcome = "ok" => landed
    /\ outcome = "error" => ~landed
    /\ store' = IF landed THEN KvDel(store, fet[j].key) ELSE store
    /\ fet' = [fet EXCEPT ![j].ops = @ + 1,
                          ![j].put = outcome,
                          ![j].cleared = landed,
                          ![j].body = IF MapThrows(fet[j].msgs)
                                      THEN FetchLiteral(500)
                                      ELSE FetchBody(200, fet[j].msgs),
                          ![j].expected = Expected(fet[j].key),
                          ![j].msgs = <<>>,
                          ![j].pc = "resp"]
    /\ ideal' = Taken(fet[j].key)
    /\ UNCHANGED <<kvEnv, now, ing, messages, poller,
                   pushVars, clientVars>>

---------------------------------------------------------------------------
(* The polling client: the interval callback of the polling effect. *)

ClientSessionId == <<"a", "-", "a">>

\* data.messages.map(msg => ({ id, text, sender: 'ai', timestamp }))
\* (the id, built from the timestamp and a random suffix, is read by no handler)
NewMessages(replies) ==
    [i \in 1..Len(replies) |->
        [text |-> replies[i].reply, sender |-> "ai",
         timestamp |-> replies[i].timestamp, rid |-> replies[i].rid]]

\* data.success && data.messages && data.messages.length > 0
HasNewMessages(body) ==
    body.success /\ body.hasMessages /\ Len(body.replies) > 0

\* The polling client once its interval runs (lines 395-402, 467-493), and
\* before the polling effect has run.
PollerRunning ==
    [interval |-> TRUE, unmounted |-> FALSE, isLoading |-> FALSE,
     webhook |-> 0, sends |-> 0, late |-> 0]

PollerMounted == [PollerRunning EXCEPT !.interval = FALSE]

\* setInterval callback: fetch(`/api/get-updates?sessionId=${sessionId}`).
\* Nothing stops a tick while an earlier tick's fetch is unanswered.
\* outcome: how the handler's read of the store ends.
PollTickWith(outcome) ==
    /\ poller.interval
    /\ FetchRequest([method |-> "GET", sessionId |-> Str(ClientSessionId)],
                    TRUE, outcome)

PollTick == PollTickWith("ok")

\* How the awaits of the callback end, lines 473-474: both resolve, fetch
\* rejects, or response.json() rejects.
PollFates == {"ok", "throws", "unparsable"}

PolledAlways(list, body, fate) == list \o NewMessages(body.replies)

\* The list after the callback: lines 476-487, and the catch of 490-492.
Polled(list, body, fate) ==
    IF fate = "ok" /\ HasNewMessages(body)
    THEN list \o NewMessages(body.replies)
    ELSE list

\* The rest of the callback, once the response has arrived.
PollResponse(j, fate) ==
    /\ fet[j].pc = "resp"
    /\ fet[j].client
    /\ ~poller.unmounted
    /\ messages' = Polled(messages, fet[j].body, fate)
    /\ poller' = IF fate = "ok" /\ HasNewMessages(fet[j].body)
                 THEN [poller EXCEPT !.isLoading = FALSE]
                 ELSE poller
    /\ fet' = [fet EXCEPT ![j].pc = "done", ![j].fate = fate]
    /\ UNCHANGED <<kvEnv, store, now, ing, ideal, pushVars, clientVars>>

\* The polling effect once sessionId is set: lines 467-493.
StartPolling ==
    /\ ~poller.interval
    /\ ~poller.unmounted
    /\ poller' = [poller EXCEPT !.interval = TRUE]
    /\ UNCHANGED <<kvEnv, store, now, ing, fet, ideal, messages, pushVars,
                   clientVars>>

\* The cleanups of the effects on unmount: lines 441-446, 495-499.
Unmount ==
    /\ ~poller.unmounted
    /\ poller' = [poller EXCEPT !.interval = FALSE, !.unmounted = TRUE]
    /\ UNCHANGED <<kvEnv, store, now, ing, fet, ideal, messages, pushVars,
                   clientVars>>

\* handleSendMessage up to the webhook fetch, lines 502-534.  The input and
\* the button are disabled while isLoading (lines 679, 683).
HandleSendMessage ==
    /\ ~poller.unmounted
    /\ ~poller.isLoading
    /\ messages' = Append(messages, [text |-> <<"U">>, sender |-> "user",
                                     timestamp |-> now, rid |-> 0])
    /\ poller' = [poller EXCEPT !.isLoading = TRUE, !.webhook = @ + 1,
                                !.sends = @ + 1]
    /\ UNCHANGED <<kvEnv, store, now, ing, fet, ideal, pushVars, clientVars>>

\* The rest of handleSendMessage once the webhook fetch settles, lines
\* 536-558.  ok: the webhook answered 2xx.
WebhookResponse(ok) ==
    /\ ~poller.unmounted
    /\ poller.webhook > 0
    /\ IF ok
       THEN /\ poller' = [poller EXCEPT !.webhook = @ - 1]
            /\ UNCHANGED messages
       ELSE /\ poller' = [poller EXCEPT !.webhook = @ - 1,
                                       !.isLoading = FALSE]
            /\ messages' = Append(messages, [text |-> <<"E">>, sender |-> "ai",
                                             timestamp |-> now, rid |-> 0])
    /\ UNCHANGED <<kvEnv, store, now, ing, fet, ideal, pushVars, clientVars>>

---------------------------------------------------------------------------
(* receive-response over Pusher *)

\* The handler up to the publish: 0 means "go on to publish".
PushValidate(req, configured) ==
    IF req.method = "OPTIONS" THEN 200
    ELSE IF req.method # "POST" THEN 405
    ELSE IF SessionIdMissing(req.sessionId) THEN 400
    ELSE IF ReplyInvalid(req.reply) THEN 400
    ELSE IF SessionIdBadFormat(req.sessionId) THEN 400
    ELSE IF ~configured THEN 503
    ELSE 0

\* `private-bot-${sessionId.trim()}`
ChannelName(s) == <<"private-bot-">> \o Trim(s)

\* A request reaches the handler, which validates it and publishes the event:
\* lines 41-145.  `outcome` is how pusher.trigger ends.
PushRequest(req, outcome) ==
    LET v == PushValidate(req, pusherEnv)
        st == IF v # 0 THEN v ELSE IF outcome = "ok" THEN 200 ELSE 500
        rec == [method |-> req.method, secret |-> req.secret,
                sessionId |-> req.sessionId,
                reply |-> req.reply, status |-> st,
                success |-> v = 0 /\ outcome = "ok",
                ops |-> IF v = 0 THEN 1 ELSE 0,
                fetches |-> Len(fet)]
    IN  /\ psh' = Append(psh, rec)
        /\ channel' =
              IF v = 0 /\ outcome = "ok"
              THEN Append(channel,
                          [channel |-> ChannelName(req.sessionId.val),
                           event |-> "new-message",
                           sessionId |-> Trim(req.sessionId.val),
                           reply |-> req.reply.val,
                           timestamp |-> now])
              ELSE channel
        /\ UNCHANGED <<pusherEnv, secretEnv, cbk, kvVars, clientVars>>

---------------------------------------------------------------------------
(* The Supabase chat client (ChatInterface with optimistic sends), the send  *)
(* route and the callback insert it talks to.                               *)
(*                                                                         *)
(* A handler runs to its next await in one step; the state updates it       *)
(* queues are applied in the order queued, so each step sees the list as    *)
(* the steps before it left it.  The `sending` a handleSend call tests is   *)
(* the one of the last render, which is the current one: the handler runs   *)
(* in a discrete event, and React renders before the next event.            *)

Module == "m1"

OtherModule == "m2"

IdleSend == [pc |-> "idle", optimisticId |-> <<>>, saved |-> <<>>, during |-> {}]

NoEvent == "none"

OtherEvent == "other"

ClientMounted ==
    /\ chats = <<>>
    /\ sentMessageIds = {}
    /\ sending = FALSE
    /\ loading = TRUE
    /\ clearing = FALSE
    /\ error = "null"
    /\ subscribed = FALSE
    /\ rows = <<>>
    /\ events = <<>>
    /\ send = IdleSend
    /\ load = [pc |-> "query", data |-> <<>>]
    /\ clr = [pc |-> "idle"]
    /\ clock = 0
    /\ nextId = 0
    /\ calls = [sends |-> 0, bots |-> 0, clears |-> 0]
    /\ last = NoEvent

\* uuidv4()
Uuid(n) == <<"uuid", n>>

\* `optimistic-${Date.now()}`
OptimisticId(t) == <<"optimistic", t>>

\* optimisticChat, lines 207-215
OptimisticChat(id) == [id |-> id, module |-> Module, sender |-> "user"]

ReplaceNothing(list, optimisticId, savedChat) == list

\* a replacement that moves the saved record to the tail
ReplaceAtTail(list, optimisticId, savedChat) ==
    LET Keep(c) == c.id # optimisticId
    IN  IF \E i \in 1..Len(list) : list[i].id = optimisticId
        THEN Append(SelectSeq(list, Keep), savedChat)
        ELSE list

PrependChat(list, chat) == <<chat>> \o list

\* [...prev, newChat]
AppendChat(list, chat) == Append(list, chat)

\* prev.map((c) => c.id === optimisticId ? savedChat : c)
ReplaceOptimistic(list, optimisticId, savedChat) ==
    [i \in 1..Len(list) |->
        IF list[i].id = optimisticId THEN savedChat ELSE list[i]]

RemoveNothing(list, optimisticId) == list

\* prev.filter((c) => c.id !== optimisticId)
RemoveOptimistic(list, optimisticId) ==
    LET Keep(c) == c.id # optimisticId IN SelectSeq(list, Keep)

SeenNothing(ids, id) == FALSE

\* sentMessageIdsRef.current.has(newChat.id)
AlreadySeen(ids, id) == id \in ids

IdsNone(list) == {}

\* data?.forEach(chat => sentMessageIdsRef.current.add(chat.id)): the ids added
Ids(list) == {list[i].id : i \in 1..Len(list)}

\* .eq('module', module).order('created_at', { ascending: true }).limit(100)
SelectChats(rs) ==
    LET OfModule(r) == r.module = Module
        mine == SelectSeq(rs, OfModule)
    IN  SubSeq(mine, 1, IF Len(mine) < HistoryLimit THEN Len(mine) ELSE HistoryLimit)

\* .delete().eq('user_id', userId).eq('module', module)
DeleteChats(rs) ==
    LET Kept(r) == r.module # Module IN SelectSeq(rs, Kept)

\* An insert into chats, and the INSERT event for a joined channel.
InsertRow(row) ==
    /\ rows' = Append(rows, row)
    /\ events' = IF subscribed THEN Append(events, row) ELSE events
    /\ nextId' = nextId + 1

\* The channel of the subscription effect joins.
Subscribe ==
    /\ ~subscribed
    /\ subscribed' = TRUE
    /\ UNCHANGED <<chats, sentMessageIds, sending, loading, clearing, error,
                   rows, events, send, load, clr, clock, nextId, calls, last>>
    /\ UNCHANGED <<kvVars, pushVars>>

\* fetchChats: the select runs on the server.
LoadQuery(ok) ==
    /\ load.pc = "query"
    /\ load' = IF ok THEN [pc |-> "data", data |-> SelectChats(rows)]
               ELSE [pc |-> "error", data |-> <<>>]
    /\ UNCHANGED <<chats, sentMessageIds, sending, loading, clearing, error,
                   subscribed, rows, events, send, clr, clock, nextId, calls, last>>
    /\ UNCHANGED <<kvVars, pushVars>>

\* fetchChats after the await: lines 97-111.
LoadDone ==
    /\ load.pc \in {"data", "error"}
    /\ IF load.pc = "data"
       THEN /\ chats' = load.data
            /\ sentMessageIds' = sentMessageIds \cup Ids(load.data)
            /\ UNCHANGED error
       ELSE /\ error' = "Failed to load messages"
            /\ UNCHANGED <<chats, sentMessageIds>>
    /\ loading' = FALSE
    /\ load' = [pc |-> "done", data |-> <<>>]
    /\ last' = OtherEvent
    /\ UNCHANGED <<sending, clearing, subscribed, rows, events, send, clr,
                   clock, nextId, calls>>
    /\ UNCHANGED <<kvVars, pushVars>>

\* The postgres_changes INSERT callback: lines 134-151.
OnInsert ==
    /\ Len(events) > 0
    /\ LET newChat == Head(events)
           seen == AlreadySeen(sentMessageIds, newChat.id)
           add == newChat.module = Module /\ ~seen /\ newChat.sender = "bot"
       IN  /\ events' = Tail(events)
           /\ chats' = IF add THEN AppendChat(chats, newChat) ELSE chats
           /\ sentMessageIds' =
                 IF add THEN sentMessageIds \cup {newChat.id} ELSE sentMessageIds
           /\ send' = IF add /\ send.pc # "idle"
                      THEN [send EXCEPT !.during = @ \cup {newChat.id}]
                      ELSE send
           /\ last' = IF newChat.module = Module /\ seen
                      THEN "seen" ELSE OtherEvent
    /\ UNCHANGED <<sending, loading, clearing, error, subscribed, rows, load,
                   clr, clock, nextId, calls>>
    /\ UNCHANGED <<kvVars, pushVars>>

\* handleSend up to the fetch: lines 199-226.  elapsed: the milliseconds the
\* browser clock has moved since the call before.
HandleSend(elapsed) ==
    /\ ~sending
    /\ send.pc = "idle"
    /\ clock' = clock + elapsed
    /\ sending' = TRUE
    /\ error' = "null"
    /\ chats' = Append(chats, OptimisticChat(OptimisticId(clock')))
    /\ send' = [IdleSend EXCEPT !.pc = "sent", !.optimisticId = OptimisticId(clock')]
    /\ calls' = [calls EXCEPT !.sends = @ + 1]
    /\ last' = OtherEvent
    /\ UNCHANGED <<sentMessageIds, loading, clearing, subscribed, rows, events,
                   load, clr, nextId>>
    /\ UNCHANGED <<kvVars, pushVars>>

\* POST /api/chat/send.  persisted: the row was inserted (lines 62-77);
\* ok: the route answers with the saved chat (lines 130-133), otherwise with
\* an error status (lines 27-60, 79-108, 134-140).
SendRoute(persisted, ok) ==
    /\ send.pc = "sent"
    /\ ok => persisted
    /\ LET row == [id |-> Uuid(nextId), module |-> Module, sender |-> "user"]
       IN  /\ IF persisted THEN InsertRow(row)
              ELSE UNCHANGED <<rows, events, nextId>>
           /\ send' = IF ok THEN [send EXCEPT !.pc = "ok", !.saved = row]
                      ELSE [send EXCEPT !.pc = "failed"]
    /\ UNCHANGED <<chats, sentMessageIds, sending, loading, clearing, error,
                   subscribed, load, clr, clock, calls, last>>
    /\ UNCHANGED <<kvVars, pushVars>>

\* handleSend after the await: lines 228-248.
SendDone ==
    /\ send.pc \in {"ok", "failed"}
    /\ IF send.pc = "ok"
       THEN /\ sentMessageIds' = sentMessageIds \cup {send.saved.id}
            /\ chats' = ReplaceOptimistic(chats, send.optimisticId, send.saved)
            /\ last' = "sendOk"
            /\ UNCHANGED error
       ELSE /\ chats' = RemoveOptimistic(chats, send.optimisticId)
            /\ error' = "Failed to send message"
            /\ last' = "sendFailed"
            /\ UNCHANGED sentMessageIds
    /\ sending' = FALSE
    /\ send' = IdleSend
    /\ UNCHANGED <<loading, clearing, subscribed, rows, events, load, clr,
                   clock, nextId, calls>>
    /\ UNCHANGED <<kvVars, pushVars>>

\* chatPayload and its insert: lines 170-185 of the callback route.
CallbackRows(m) ==
    /\ InsertRow([id |-> Uuid(nextId), module |-> m, sender |-> "bot"])
    /\ calls' = [calls EXCEPT !.bots = @ + 1]
    /\ UNCHANGED <<chats, sentMessageIds, sending, loading, clearing, error,
                   subscribed, send, load, clr, clock, last>>

\* The callback route's insert of a bot reply: lines 167-185 of the route.
CallbackInsert(m) ==
    /\ CallbackRows(m)
    /\ UNCHANGED <<kvVars, pushVars>>

\* Object.keys(MODULE_CONFIG)
Modules == {Module, OtherModule}

CallbackValidateSecretOnly(req, expectedSecret) ==
    IF expectedSecret = Unset \/ req.secret # expectedSecret THEN 401 ELSE 0

\* The callback route up to the insert, lines 43-102: 0 means "go on".
CallbackValidate(req, expectedSecret) ==
    IF expectedSecret = Unset \/ req.secret # expectedSecret THEN 401
    ELSE IF ~req.userId \/ req.module = "" \/ ~req.message THEN 400
    ELSE IF req.module \notin Modules THEN 400
    ELSE 0

\* What can happen to one file of the batch, lines 111-163: validateFile
\* rejects it, the decoding or the upload call throws, the upload answers with
\* an error, or it is uploaded.
FileFates == {"ok", "invalid", "throws", "uploadError"}

FileKeptUnlessInvalid(fate) == fate # "invalid"

\* One turn of the file loop reaches processedAttachments.push: lines 116-156.
FileKept(fate) ==
    IF fate = "invalid" THEN FALSE
    ELSE IF fate = "throws" THEN FALSE
    ELSE IF fate = "uploadError" THEN FALSE
    ELSE TRUE

\* The file loop, lines 105-165: processedAttachments after the files from
\* position k on.  An uploaded file is named by its position in the batch.
RECURSIVE ProcessFiles(_, _, _)
ProcessFiles(files, processedAttachments, k) ==
    IF k > Len(files) THEN processedAttachments
    ELSE ProcessFiles(files,
                      IF FileKept(files[k])
                      THEN Append(processedAttachments, [name |-> k])
                      ELSE processedAttachments,
                      k + 1)

\* The turns of the file loop that reach supabase.storage.upload: lines 133-138.
UploadCalls(files) ==
    Cardinality({k \in 1..Len(files) : files[k] \in {"ok", "uploadError"}})

\* chatPayload.attachments, line 176.
PayloadAttachments(processedAttachments) ==
    [null |-> Len(processedAttachments) = 0, items |-> processedAttachments]

\* POST /api/n8n/callback.  `outcome` is how the insert ends.
CallbackRoute(req, outcome) ==
    LET v == CallbackValidate(req, secretEnv)
        st == IF v # 0 THEN v ELSE IF outcome = "ok" THEN 200 ELSE 500
    IN  /\ cbk' = Append(cbk, [secret |-> req.secret, module |-> req.module,
                               userId |-> req.userId,
                               message |-> req.message,
                               status |-> st,
                               incoming |-> req.attachments,
                               files |-> req.files,
                               attachments |->
                                   IF v = 0
                                   THEN PayloadAttachments(
                                            ProcessFiles(req.files,
                                                         req.attachments, 1))
                                   ELSE PayloadAttachments(<<>>),
                               uploads |-> IF v = 0 THEN UploadCalls(req.files)
                                           ELSE 0,
                               ops |-> IF v = 0 THEN 1 ELSE 0])
        /\ IF v = 0 /\ outcome = "ok"
           THEN CallbackRows(req.module)
           ELSE UNCHANGED clientVars
        /\ UNCHANGED <<pusherEnv, psh, channel, secretEnv, kvVars>>

\* handleClearChats up to the delete: lines 161-175.  The button is disabled
\* while clearing or with an empty list; the user confirms.
HandleClearChats ==
    /\ ~clearing
    /\ Len(chats) > 0
    /\ clr.pc = "idle"
    /\ clearing' = TRUE
    /\ error' = "null"
    /\ clr' = [pc |-> "deleting"]
    /\ calls' = [calls EXCEPT !.clears = @ + 1]
    /\ last' = OtherEvent
    /\ UNCHANGED <<chats, sentMessageIds, sending, loading, subscribed, rows,
                   events, send, load, clock, nextId>>
    /\ UNCHANGED <<kvVars, pushVars>>

\* The delete runs on the server, or fails.
ClearQuery(ok) ==
    /\ clr.pc = "deleting"
    /\ rows' = IF ok THEN DeleteChats(rows) ELSE rows
    /\ clr' = [pc |-> IF ok THEN "ok" ELSE "failed"]
    /\ UNCHANGED <<chats, sentMessageIds, sending, loading, clearing, error,
                   subscribed, events, send, load, clock, nextId, calls, last>>
    /\ UNCHANGED <<kvVars, pushVars>>

\* a handleClearChats that empties the list and leaves the seen-ids set
ClearDoneKeepsSeen ==
    /\ clr.pc \in {"ok", "failed"}
    /\ IF clr.pc = "ok"
       THEN /\ chats' = <<>>
            /\ UNCHANGED <<sentMessageIds, error>>
       ELSE /\ error' = "Failed to clear messages"
            /\ UNCHANGED <<chats, sentMessageIds>>
    /\ clearing' = FALSE
    /\ clr' = [pc |-> "idle"]
    /\ last' = OtherEvent
    /\ UNCHANGED <<sending, loading, subscribed, rows, events, send, load,
                   clock, nextId, calls>>
    /\ UNCHANGED <<kvVars, pushVars>>

\* handleClearChats after the await: lines 177-188.
ClearDone ==
    /\ clr.pc \in {"ok", "failed"}
    /\ IF clr.pc = "ok"
       THEN /\ chats' = <<>>
            /\ sentMessageIds' = {}
            /\ UNCHANGED error
       ELSE /\ error' = "Failed to clear messages"
            /\ UNCHANGED <<chats, sentMessageIds>>
    /\ clearing' = FALSE
    /\ clr' = [pc |-> "idle"]
    /\ last' = OtherEvent
    /\ UNCHANGED <<sending, loading, subscribed, rows, events, send, load,
                   clock, nextId, calls>>
    /\ UNCHANGED <<kvVars, pushVars>>

CallsMade == calls.sends + calls.bots + calls.clears

InitClient ==
    /\ kvEnv = EnvVercel
    /\ store = [k \in {} |-> Null]
    /\ now = 0
    /\ ing = <<>>
    /\ fet = <<>>
    /\ ideal = [k \in {} |-> <<>>]
    /\ messages = <<>>
    /\ poller = PollerRunning
    /\ pusherEnv = FALSE
    /\ psh = <<>>
    /\ channel = <<>>
    /\ secretEnv = Secret
    /\ cbk = <<>>
    /\ ClientMounted

UserSends ==
    /\ CallsMade < MaxCalls
    /\ \E elapsed \in {0, 1} : HandleSend(elapsed)

BotReplies ==
    /\ CallsMade < MaxCalls
    /\ \E m \in {Module, OtherModule} : CallbackInsert(m)

UserClears ==
    /\ CallsMade < MaxCalls
    /\ HandleClearChats

NextClient ==
    \/ Subscribe
    \/ \E ok \in BOOLEAN : LoadQuery(ok)
    \/ LoadDone
    \/ OnInsert
    \/ UserSends
    \/ \E persisted \in BOOLEAN, ok \in BOOLEAN : SendRoute(persisted, ok)
    \/ SendDone
    \/ BotReplies
    \/ UserClears
    \/ \E ok \in BOOLEAN : ClearQuery(ok)
    \/ ClearDone

SpecClient == InitClient /\ [][NextClient]_vars

\* The browser runs the handlers whose awaits have settled and the database
\* answers its queries; the send endpoint, which awaits the workflow's webhook
\* (route lines 112-128), owes no answer, and the fetch of handleSend (lines
\* 222-226) sets no timer.
SpecClientFair ==
    /\ SpecClient
    /\ WF_vars(Subscribe)
    /\ WF_vars(\E ok \in BOOLEAN : LoadQuery(ok))
    /\ WF_vars(LoadDone)
    /\ WF_vars(OnInsert)
    /\ WF_vars(SendDone)
    /\ WF_vars(\E ok \in BOOLEAN : ClearQuery(ok))
    /\ WF_vars(ClearDone)

---------------------------------------------------------------------------
(* The Supabase client mounting on a log that already holds messages: the    *)
(* callback inserts replies while no client is subscribed, then the client   *)
(* subscribes and loads its history.                                         *)

\* How many rows of the user and module the table holds at the start.
LogSizes == {0, HistoryLimit - 1, HistoryLimit}

LoggedRows(k) ==
    [n \in 1..k |->
        [id |-> Uuid(n - 1), module |-> Module,
         sender |-> IF n % 2 = 1 THEN "user" ELSE "bot"]]

InitHistory ==
    /\ kvEnv = EnvVercel
    /\ store = [k \in {} |-> Null]
    /\ now = 0
    /\ ing = <<>>
    /\ fet = <<>>
    /\ ideal = [k \in {} |-> <<>>]
    /\ messages = <<>>
    /\ poller = PollerRunning
    /\ pusherEnv = FALSE
    /\ psh = <<>>
    /\ channel = <<>>
    /\ secretEnv = Secret
    /\ cbk = <<>>
    /\ chats = <<>>
    /\ sentMessageIds = {}
    /\ sending = FALSE
    /\ loading = TRUE
    /\ clearing = FALSE
    /\ error = "null"
    /\ subscribed = FALSE
    /\ \E k \in LogSizes : rows = LoggedRows(k) /\ nextId = k
    /\ events = <<>>
    /\ send = IdleSend
    /\ load = [pc |-> "query", data |-> <<>>]
    /\ clr = [pc |-> "idle"]
    /\ clock = 0
    /\ calls = [sends |-> 0, bots |-> 0, clears |-> 0]
    /\ last = NoEvent

\* The callback route saves a reply before the mount effect's select has run
\* and before the channel has joined.
ReplyWhileAway ==
    /\ calls.bots < MaxLogged
    /\ ~subscribed
    /\ load.pc = "query"
    /\ \E m \in Modules : CallbackInsert(m)

NextHistory ==
    \/ ReplyWhileAway
    \/ Subscribe
    \/ \E ok \in BOOLEAN : LoadQuery(ok)
    \/ LoadDone

SpecHistory == InitHistory /\ [][NextHistory]_vars

---------------------------------------------------------------------------
(* The relay under concurrent requests for the client's session *)

ReplyBodies == {<<"A">>}

EmptyStore == [k \in {} |-> Null]

Init ==
    /\ kvEnv = EnvVercel
    /\ store = EmptyStore
    /\ now = 0
    /\ ing = <<>>
    /\ fet = <<>>
    /\ ideal = [k \in {} |-> <<>>]
    /\ messages = <<>>
    /\ poller = PollerRunning
    /\ pusherEnv = FALSE
    /\ psh = <<>>
    /\ channel = <<>>
    /\ secretEnv = Secret
    /\ cbk = <<>>
    /\ ClientMounted

Submit ==
    /\ Len(ing) < MaxIngress
    /\ \E b \in ReplyBodies :
          IngressRequest([method |-> "POST", secret |-> Secret,
                          sessionId |-> Str(ClientSessionId),
                          reply |-> Str(b)], "ok")

Poll ==
    /\ Len(fet) < MaxFetch
    /\ PollTick

Next ==
    \/ Submit
    \/ \E i \in 1..Len(ing) : IngressSet(i, "ok", TRUE)
    \/ Poll
    \/ \E j \in 1..Len(fet) : FetchDel(j, "ok", TRUE)
    \/ \E j \in 1..Len(fet) : PollResponse(j, "ok")

Spec == Init /\ [][Next]_vars

---------------------------------------------------------------------------
(* The relay with a clock: requests for the client's session while time      *)
(* passes, in steps of half the TTL                                          *)

TickStep == MESSAGE_TTL \div 2

\* Time passes on the server and in the store.
Tick ==
    /\ now < MaxTicks * TickStep
    /\ now' = now + TickStep
    /\ UNCHANGED <<kvEnv, store, ing, fet, ideal, messages, poller,
                   pushVars, clientVars>>

SubmitTtl ==
    /\ Len(ing) + Len(fet) < MaxTtlCalls
    /\ IngressRequest([method |-> "POST", secret |-> Secret,
                       sessionId |-> Str(ClientSessionId),
                       reply |-> Str(<<"A">>)], "ok")

FetchTtl ==
    /\ Len(ing) + Len(fet) < MaxTtlCalls
    /\ FetchRequest([method |-> "GET", sessionId |-> Str(ClientSessionId)],
                    FALSE, "ok")

NextTtl ==
    \/ SubmitTtl
    \/ \E i \in 1..Len(ing) : IngressSet(i, "ok", TRUE)
    \/ FetchTtl
    \/ \E j \in 1..Len(fet) : FetchDel(j, "ok", TRUE)
    \/ Tick

SpecTtl == Init /\ [][NextTtl]_vars

---------------------------------------------------------------------------
(* The relay with several sessions: the client's, and two whose sessionIds   *)
(* differ only in where their blank is                                       *)

SessionPool == {ClientSessionId, <<" ", "a", "a">>, <<"a", "a", " ">>}

SubmitTo(sid) ==
    /\ Len(ing) + Len(fet) < MaxSessionCalls
    /\ IngressRequest([method |-> "POST", secret |-> Secret,
                       sessionId |-> Str(sid),
                       reply |-> Str(<<"A">>)], "ok")

FetchFrom(sid) ==
    /\ Len(ing) + Len(fet) < MaxSessionCalls
    /\ FetchRequest([method |-> "GET", sessionId |-> Str(sid)], FALSE, "ok")

NextSessions ==
    \/ \E sid \in SessionPool : SubmitTo(sid)
    \/ \E i \in 1..Len(ing) : IngressSet(i, "ok", TRUE)
    \/ \E sid \in SessionPool : FetchFrom(sid)
    \/ \E j \in 1..Len(fet) : FetchDel(j, "ok", TRUE)

SpecSessions == Init /\ [][NextSessions]_vars

---------------------------------------------------------------------------
(* The relay started on a session key that holds a value that is not a list *)

\* A value some other writer left under the client's key: an object, here one
\* that wraps a message.
CorruptBucket ==
    [k \in {Key(ClientSessionId)} |->
        [kind |-> "object",
         items |-> <<[sessionId |-> ClientSessionId, reply |-> <<"A">>,
                      timestamp |-> 0, rid |-> 0, null |-> FALSE]>>,
         exp |-> MESSAGE_TTL]]

InitHeal ==
    /\ kvEnv = EnvVercel
    /\ store = CorruptBucket
    /\ now = 0
    /\ ing = <<>>
    /\ fet = <<>>
    /\ ideal = [k \in {} |-> <<>>]
    /\ messages = <<>>
    /\ poller = PollerRunning
    /\ pusherEnv = FALSE
    /\ psh = <<>>
    /\ channel = <<>>
    /\ secretEnv = Secret
    /\ cbk = <<>>
    /\ ClientMounted

SpecHeal == InitHeal /\ [][Next]_vars

---------------------------------------------------------------------------
(* One request with any input, against a store that holds nothing or one     *)
(* bucket                                                                    *)

Methods == {"POST", "GET", "OPTIONS"}

SessionIdInputs == {Undefined, NumberVal} \cup {Str(x) : x \in Strings(MaxIdLen)}

ReplyInputs == {Undefined, NumberVal, Str(<<>>), Str(<<"A">>)}

IngressInputs ==
    [method : Methods, secret : SecretHeaders,
     sessionId : SessionIdInputs, reply : ReplyInputs]

FetchInputs == [method : Methods, sessionId : SessionIdInputs]

\* The store after one accepted append for the client's session.
OneBucket ==
    KvSet(EmptyStore, Key(ClientSessionId),
          <<[sessionId |-> ClientSessionId, reply |-> <<"A">>,
             timestamp |-> 0, rid |-> 0, null |-> FALSE]>>,
          MESSAGE_TTL)

InitialStores == {EmptyStore, OneBucket}

\* An array some other writer left under the client's key, with a null in it.
NullBucket ==
    KvSet(EmptyStore, Key(ClientSessionId),
          <<[sessionId |-> <<>>, reply |-> <<>>, timestamp |-> 0, rid |-> 0,
             null |-> TRUE]>>,
          MESSAGE_TTL)

InputStores == InitialStores \cup {NullBucket}

InitInput ==
    /\ kvEnv \in {EnvNone, EnvVercel}
    /\ store \in InputStores
    /\ now = 0
    /\ ing = <<>>
    /\ fet = <<>>
    /\ ideal = [k \in {} |-> <<>>]
    /\ messages = <<>>
    /\ poller = PollerRunning
    /\ pusherEnv \in BOOLEAN
    /\ psh = <<>>
    /\ channel = <<>>
    /\ secretEnv \in {Unset, Secret}
    /\ cbk = <<>>
    /\ ClientMounted

NoRequestYet == Len(ing) = 0 /\ Len(fet) = 0 /\ Len(psh) = 0 /\ Len(cbk) = 0

\* Batches of at most MaxFiles files, by what happens to each file.
FileBatches == UNION {[1..n -> FileFates] : n \in 0..MaxFiles}

\* The body's attachments: absent (line 105 makes it []) or one attachment.
IncomingAttachments == {<<>>, <<[name |-> 0]>>}

CallbackInputs ==
    [secret : SecretHeaders, userId : BOOLEAN,
     module : Modules \cup {"", "zz"}, message : BOOLEAN,
     attachments : IncomingAttachments, files : FileBatches]

SubmitAny ==
    /\ NoRequestYet
    /\ \E req \in IngressInputs, outcome \in ReadOutcomes :
          IngressRequest(req, outcome)

FetchAny ==
    /\ NoRequestYet
    /\ \E req \in FetchInputs, outcome \in ReadOutcomes :
          FetchRequest(req, FALSE, outcome)

PublishAny ==
    /\ NoRequestYet
    /\ \E req \in IngressInputs, outcome \in {"ok", "error"} :
          PushRequest(req, outcome)

CallbackAny ==
    /\ NoRequestYet
    /\ \E req \in CallbackInputs, outcome \in {"ok", "error"} :
          CallbackRoute(req, outcome)

NextInput ==
    \/ SubmitAny
    \/ \E i \in 1..Len(ing), outcome \in WriteOutcomes, landed \in BOOLEAN :
          IngressSet(i, outcome, landed)
    \/ FetchAny
    \/ \E j \in 1..Len(fet), outcome \in WriteOutcomes, landed \in BOOLEAN :
          FetchDel(j, outcome, landed)
    \/ PublishAny
    \/ CallbackAny

SpecInput == InitInput /\ [][NextInput]_vars

---------------------------------------------------------------------------
(* The two handlers under src/api deployed together: receive-response over   *)
(* Pusher and get-updates over the KV store                                  *)

InitDeployed ==
    /\ kvEnv = EnvVercel
    /\ store \in InitialStores
    /\ now = 0
    /\ ing = <<>>
    /\ fet = <<>>
    /\ ideal = [k \in {} |-> <<>>]
    /\ messages = <<>>
    /\ poller = PollerRunning
    /\ pusherEnv = TRUE
    /\ psh = <<>>
    /\ channel = <<>>
    /\ secretEnv = Secret
    /\ cbk = <<>>
    /\ ClientMounted

PublishDeployed ==
    /\ Len(psh) + Len(fet) < MaxDeployedCalls
    /\ \E outcome \in {"ok", "error"} :
          PushRequest([method |-> "POST", secret |-> Secret,
                       sessionId |-> Str(ClientSessionId),
                       reply |-> Str(<<"B">>)], outcome)

FetchDeployed ==
    /\ Len(psh) + Len(fet) < MaxDeployedCalls
    /\ FetchRequest([method |-> "GET", sessionId |-> Str(ClientSessionId)],
                    FALSE, "ok")

NextDeployed ==
    \/ PublishDeployed
    \/ FetchDeployed
    \/ \E j \in 1..Len(fet) : FetchDel(j, "ok", TRUE)

SpecDeployed == InitDeployed /\ [][NextDeployed]_vars

---------------------------------------------------------------------------
(* The callback with one file, described by its name, declared type,        *)
(* declared size and data: validateFile and the upload                      *)

\* export const MAX_FILE_SIZE
MAX_FILE_SIZE == 10 * 1024 * 1024

\* The characters filenames are drawn from: two lower-case letters, an
\* upper-case letter, the dot, and U+0130 (capital I with dot above), which
\* toLowerCase() turns into the two code units U+0069 U+0307.
NameChars == {"j", "s", "S", ".", "U+0130"}

\* c.toLowerCase(), as the code units it yields
LowerOf(c) ==
    IF c = "S" THEN <<"s">>
    ELSE IF c = "U+0130" THEN <<"i", "U+0307">>
    ELSE <<c>>

\* s.toLowerCase()
RECURSIVE ToLowerCase(_)
ToLowerCase(s) ==
    IF Len(s) = 0 THEN <<>> ELSE LowerOf(Head(s)) \o ToLowerCase(Tail(s))

\* s.lastIndexOf('.'): the 0-based index, -1 without a dot
LastIndexOf(s, c) ==
    IF \E i \in 1..Len(s) : s[i] = c
    THEN (CHOOSE i \in 1..Len(s) :
              s[i] = c /\ \A k \in (i + 1)..Len(s) : s[k] # c) - 1
    ELSE -1

\* s.slice(start): a negative start counts from the end
Slice(s, start) ==
    LET from == IF start < 0
                THEN (IF Len(s) + start < 0 THEN 0 ELSE Len(s) + start)
                ELSE start
    IN  SubSeq(s, from + 1, Len(s))

\* The entries of BLOCKED_EXTENSIONS that NameChars can spell.
BLOCKED_EXTENSIONS == {<<".", "j", "s">>}

\* isBlockedExtension
IsBlockedExtension(filename) ==
    Slice(ToLowerCase(filename), LastIndexOf(filename, ".")) \in BLOCKED_EXTENSIONS

\* Declared types: an allowed one, the same in upper case, one not allowed.
MimeTypes == {"image/png", "IMAGE/PNG", "text/html"}

\* mimeType.toLowerCase()
LowerMime(m) == IF m = "IMAGE/PNG" THEN "image/png" ELSE m

\* Object.keys(ALLOWED_MIME_TYPES), the ones MimeTypes can name
ALLOWED_MIME_TYPES == {"image/png"}

\* isAllowedMimeType
IsAllowedMimeType(m) == LowerMime(m) \in ALLOWED_MIME_TYPES

\* validateFile: the result, with the check that failed
ValidateFile(filename, mimeType, size) ==
    IF size > MAX_FILE_SIZE THEN [valid |-> FALSE, error |-> "size"]
    ELSE IF IsBlockedExtension(filename)
    THEN [valid |-> FALSE, error |-> "extension"]
    ELSE IF ~IsAllowedMimeType(mimeType) THEN [valid |-> FALSE, error |-> "mime"]
    ELSE [valid |-> TRUE, error |-> "none"]

\* Math.ceil((file.data.length * 3) / 4)
EstimatedSize(length) == (length * 3 + 3) \div 4

\* file.size || Math.ceil(...): a missing size and 0 are both falsy
FileSize(size, length) == IF size # 0 THEN size ELSE EstimatedSize(length)

\* Buffer.from(file.data, 'base64').length for unpadded data
DecodedSize(length) == (length * 3) \div 4

FileNames == UNION {[1..n -> NameChars] : n \in 1..MaxNameLen}

\* file.size: missing, small, the ceiling, one more
DeclaredSizes == {0, 1, MAX_FILE_SIZE, MAX_FILE_SIZE + 1}

\* file.data.length: no data, four characters, data decoding to more than
\* the ceiling
DataLengths == {0, 4, 4 * (MAX_FILE_SIZE \div 3) + 4}

\* POST /api/n8n/callback with the secret, the required fields and one file:
\* lines 104-212.  upload: how supabase.storage.upload answers.
CallbackFile(file, upload) ==
    LET fileSize == FileSize(file.size, file.length)
        validation == ValidateFile(file.name, file.mimeType, fileSize)
        uploaded == validation.valid /\ upload = "ok"
        fate == IF ~validation.valid THEN "invalid"
                ELSE IF upload = "ok" THEN "ok" ELSE "uploadError"
    IN  /\ cbk' = Append(cbk, [secret |-> Secret, module |-> Module,
                               userId |-> TRUE, message |-> TRUE,
                               status |-> 200,
                               incoming |-> <<>>,
                               files |-> <<fate>>,
                               attachments |->
                                   PayloadAttachments(
                                       ProcessFiles(<<fate>>, <<>>, 1)),
                               uploads |-> UploadCalls(<<fate>>),
                               ops |-> 1,
                               file |-> file,
                               fileSize |-> fileSize,
                               validation |-> validation,
                               uploaded |-> uploaded,
                               uploadedSize |->
                                   IF uploaded THEN DecodedSize(file.length)
                                   ELSE 0])
        /\ CallbackRows(Module)
        /\ UNCHANGED <<pusherEnv, psh, channel, secretEnv, kvVars>>

FileInputs ==
    [name : FileNames, mimeType : MimeTypes, size : DeclaredSizes,
     length : DataLengths]

CallbackOneFile ==
    /\ Len(cbk) = 0
    /\ \E file \in FileInputs, upload \in {"ok", "uploadError"} :
          CallbackFile(file, upload)

NextFiles == CallbackOneFile

SpecFiles == Init /\ [][NextFiles]_vars

---------------------------------------------------------------------------
(* The relay one call at a time, with deletes that fail, time out or succeed *)

NoCallInFlight ==
    /\ \A i \in 1..Len(ing) : ~IngInFlight(ing[i])
    /\ \A j \in 1..Len(fet) : ~FetInFlight(fet[j])

SubmitAlone ==
    /\ NoCallInFlight
    /\ Len(ing) + Len(fet) < MaxFaultCalls
    /\ \E b \in ReplyBodies :
          IngressRequest([method |-> "POST", secret |-> Secret,
                          sessionId |-> Str(ClientSessionId),
                          reply |-> Str(b)], "ok")

FetchAlone ==
    /\ NoCallInFlight
    /\ Len(ing) + Len(fet) < MaxFaultCalls
    /\ FetchRequest([method |-> "GET", sessionId |-> Str(ClientSessionId)],
                    FALSE, "ok")

FetchDelAny ==
    \E j \in 1..Len(fet), outcome \in WriteOutcomes, landed \in BOOLEAN :
        FetchDel(j, outcome, landed)

NextDelFault ==
    \/ SubmitAlone
    \/ \E i \in 1..Len(ing) : IngressSet(i, "ok", TRUE)
    \/ FetchAlone
    \/ FetchDelAny

SpecDelFault == Init /\ [][NextDelFault]_vars

---------------------------------------------------------------------------
(* The polling client from its mount on: it sends, the worker replies       *)
(* through receive-response, and the interval polls get-updates             *)

InitPolling ==
    /\ kvEnv = EnvVercel
    /\ store = EmptyStore
    /\ now = 0
    /\ ing = <<>>
    /\ fet = <<>>
    /\ ideal = [k \in {} |-> <<>>]
    /\ messages = <<>>
    /\ poller = PollerMounted
    /\ pusherEnv = FALSE
    /\ psh = <<>>
    /\ channel = <<>>
    /\ secretEnv = Secret
    /\ cbk = <<>>
    /\ ClientMounted

\* history: the calls of the run so far
PollingCalls == poller.sends + Len(ing) + Len(fet)

UserSendsMessage ==
    /\ PollingCalls < MaxPollingCalls
    /\ HandleSendMessage

\* The worker posts a reply for the client's session.
WorkerReply ==
    /\ PollingCalls < MaxPollingCalls
    /\ \E b \in ReplyBodies :
          IngressRequest([method |-> "POST", secret |-> Secret,
                          sessionId |-> Str(ClientSessionId),
                          reply |-> Str(b)], "ok")

IngressDone == \E i \in 1..Len(ing) : IngressSet(i, "ok", TRUE)

\* A tick whose request finds the store answering or timing out.
PollAny ==
    /\ PollingCalls < MaxPollingCalls
    /\ \E outcome \in {"ok", "timeout"} : PollTickWith(outcome)

FetchDone == \E j \in 1..Len(fet) : FetchDel(j, "ok", TRUE)

\* A tick of the interval once the calls of the run are on record, from the fetch to
\* the end of the callback in one step and not recorded: the handler reads and
\* clears the bucket (get-updates lines 143-201) or its read times out, and
\* the callback (lines 472-492) ends as `fate` says; it follows the polls on
\* record.  late: history, the parity of these ticks.
LatePoll(outcome, fate) ==
    /\ poller.interval
    /\ PollingCalls = MaxPollingCalls
    /\ \A j \in 1..Len(fet) : fet[j].pc = "done"
    /\ LET key == Key(ClientSessionId)
           g == FetchGetStatus(outcome)
           msgs == IF g = 0 THEN AsArray(KvGet(store, key, now)) ELSE <<>>
           clear == Len(msgs) > 0
           body == IF g # 0 THEN FetchLiteral(g)
                   ELSE IF MapThrows(msgs) THEN FetchLiteral(500)
                   ELSE FetchBody(200, msgs)
           cleared == fate = "ok" /\ HasNewMessages(body)
       IN  /\ store' = IF clear THEN KvDel(store, key) ELSE store
           /\ ing' = IF clear THEN MarkFet(ing, key) ELSE ing
           /\ fet' = IF clear THEN MarkFet(fet, key) ELSE fet
           /\ ideal' = IF g = 0 THEN Taken(key) ELSE ideal
           /\ messages' = Polled(messages, body, fate)
           /\ poller' = [poller EXCEPT
                            !.isLoading = IF cleared THEN FALSE ELSE @,
                            !.late = 1 - @]
    /\ UNCHANGED <<kvEnv, now, pushVars, clientVars>>

LatePollAny ==
    \E outcome \in {"ok", "timeout"}, fate \in PollFates : LatePoll(outcome, fate)

PollSettled == \E j \in 1..Len(fet), fate \in PollFates : PollResponse(j, fate)

WebhookSettled == \E ok \in BOOLEAN : WebhookResponse(ok)

NextPolling ==
    \/ StartPolling
    \/ UserSendsMessage
    \/ WebhookSettled
    \/ WorkerReply
    \/ IngressDone
    \/ PollAny
    \/ FetchDone
    \/ PollSettled
    \/ LatePollAny
    \/ Unmount

SpecPolling == InitPolling /\ [][NextPolling]_vars

\* The interval fires, the server and the network finish what they started,
\* and every fetch settles; the worker owes no reply and the user no action.
SpecPollingFair ==
    /\ SpecPolling
    /\ WF_vars(StartPolling)
    /\ WF_vars(WebhookSettled)
    /\ WF_vars(IngressDone)
    /\ WF_vars(PollAny)
    /\ WF_vars(FetchDone)
    /\ WF_vars(PollSettled)
    /\ WF_vars(LatePollAny)

---------------------------------------------------------------------------
(* Properties of the relay *)

Rids(seq) == [i \in 1..Len(seq) |-> seq[i].rid]

Count(seq, rid) == Cardinality({i \in 1..Len(seq) : seq[i].rid = rid})

Accepted(i) == ing[i].pc = "done" /\ ing[i].status = 200 /\ ing[i].success

\* get-updates j has answered 200 after reading the store
Answered(j) ==
    /\ fet[j].pc \in {"resp", "done"}
    /\ fet[j].body.status = 200
    /\ fet[j].ops > 0

FirstFetchOfKey(j) == \A k \in 1..(j - 1) : fet[k].key # fet[j].key

Bucket(key) == AsArray(KvGet(store, key, now))

\* C1: a drain that runs after N accepted appends of its key (the appends may
\* have interleaved with each other, the drain interleaves with nothing and is
\* the first of the key) returns exactly those N payloads, in call order.
C1_AppendsAllDrained ==
    \A j \in 1..Len(fet) :
        (Answered(j) /\ FirstFetchOfKey(j) /\ ~fet[j].withIng /\ ~fet[j].withFet)
            => Rids(fet[j].body.replies) = fet[j].expected

\* C2: a payload accepted by an append that interleaved with a drain (and with
\* no other append) is returned by a drain or is still in the bucket for the
\* next one.
C2_AppendDuringDrainKept ==
    \A i \in 1..Len(ing) :
        (Accepted(i) /\ ing[i].withFet /\ ~ing[i].withIng)
            => \/ \E j \in 1..Len(fet) :
                      Count(fet[j].body.replies, i) + Count(fet[j].msgs, i) > 0
               \/ Count(Bucket(ing[i].key), i) > 0

\* C3: two drains of one key that interleaved with each other (and with no
\* append) do not both return the same payload.
C3_DrainsDisjoint ==
    \A j \in 1..Len(fet), k \in 1..Len(fet) :
        (/\ j < k
         /\ fet[j].key = fet[k].key
         /\ fet[j].withFet /\ fet[k].withFet
         /\ ~fet[j].withIng /\ ~fet[k].withIng)
            => \A i \in 1..Len(ing) :
                  ~(Count(fet[j].body.replies, i) > 0
                    /\ Count(fet[k].body.replies, i) > 0)

NoOverlap ==
    /\ \A i \in 1..Len(ing) : ~ing[i].withIng /\ ~ing[i].withFet
    /\ \A j \in 1..Len(fet) : ~fet[j].withIng /\ ~fet[j].withFet

\* C4: with no two requests interleaved, every fetch answers success:true with
\* exactly the payloads accepted since the previous fetch of the session, in
\* the order they were accepted, and count is their number; so a second fetch
\* with no append in between answers messages [] and count 0.
C4_SequentialFetch ==
    NoOverlap =>
        \A j \in 1..Len(fet) :
            Answered(j) =>
                /\ fet[j].body.success
                /\ Rids(fet[j].body.replies) = fet[j].expected
                /\ \A n \in 1..Len(fet[j].body.replies) :
                      fet[j].body.replies[n].reply
                          = ing[fet[j].expected[n]].reply.val
                /\ fet[j].body.count = Len(fet[j].expected)

C4_Witness ==
    /\ NoOverlap
    /\ \E j \in 1..Len(fet), k \in 1..Len(fet) :
          /\ j < k
          /\ Answered(j) /\ Answered(k)
          /\ fet[j].body.count = 2
          /\ fet[j].body.replies[1].rid = 1
          /\ fet[k].body.count = 0

AllQuiet ==
    /\ \A i \in 1..Len(ing) : ing[i].pc = "done"
    /\ \A j \in 1..Len(fet) : fet[j].pc = "done"

\* C5: whatever the overlap of the client's own polls (the appends interleave
\* with nothing), every accepted reply is in the visible list at most once, and
\* exactly once when every request has been answered and the bucket is empty.
C5_PollExactlyOnce ==
    (\A i \in 1..Len(ing) : ~ing[i].withIng /\ ~ing[i].withFet)
        => \A i \in 1..Len(ing) :
              Accepted(i) =>
                  /\ Count(messages, i) <= 1
                  /\ (AllQuiet /\ Bucket(ing[i].key) = <<>>)
                        => Count(messages, i) = 1

\* The shape the session key must have, as the documentation states it: at
\* least 3 characters, at least one letter or digit.
BadShape(x) ==
    Len(x) < 3 \/ \A n \in 1..Len(x) : x[n] \notin {"a"}

\* C10: an ingress POST whose sessionId is a string of fewer than 3 characters
\* or without any alphanumeric character is answered 400 and makes no store
\* call and no publish: the store and the channel are as they were.
C10_BadSessionIdRejected ==
    /\ \A i \in 1..Len(ing) :
          (/\ ing[i].method = "POST"
           /\ ing[i].sessionId.kind = "string"
           /\ BadShape(ing[i].sessionId.val))
              => /\ ing[i].status = 400 /\ ing[i].pc = "done"
                 /\ ing[i].ops = 0
                 /\ store \in InputStores
    /\ \A i \in 1..Len(psh) :
          (/\ psh[i].method = "POST"
           /\ psh[i].sessionId.kind = "string"
           /\ BadShape(psh[i].sessionId.val))
              => /\ psh[i].status = 400
                 /\ psh[i].ops = 0
                 /\ channel = <<>>

C10_Witness ==
    /\ IngressKVConfigured(kvEnv)
    /\ \E i \in 1..Len(ing) :
          /\ ing[i].method = "POST"
          /\ ing[i].sessionId = Str(<<"-", "-", "-">>)
          /\ ing[i].reply = Str(<<"A">>)
          /\ ing[i].status = 400
          /\ ing[i].ops = 0

\* The replies the ingress must refuse: missing, not a string, or empty.
BadReply(x) == x.kind # "string" \/ x.val = <<>>

\* C11: an ingress POST whose reply is missing, is not a string or is the
\* empty string is answered 400 whatever its sessionId, and makes no store
\* call and no publish: the store and the channel are as they were.
C11_BadReplyRejected ==
    /\ \A i \in 1..Len(ing) :
          (ing[i].method = "POST" /\ BadReply(ing[i].reply))
              => /\ ing[i].status = 400 /\ ing[i].pc = "done"
                 /\ ing[i].ops = 0
                 /\ store \in InputStores
    /\ \A i \in 1..Len(psh) :
          (psh[i].method = "POST" /\ BadReply(psh[i].reply))
              => /\ psh[i].status = 400
                 /\ psh[i].ops = 0
                 /\ channel = <<>>

C11_Witness ==
    /\ IngressKVConfigured(kvEnv)
    /\ \E i \in 1..Len(ing) :
          /\ ing[i].method = "POST"
          /\ ing[i].sessionId = Str(ClientSessionId)
          /\ ing[i].reply = NumberVal
          /\ ing[i].status = 400
          /\ ing[i].ops = 0

\* The request carries the shared secret: one is configured and the header
\* equals it.
CarriesSecret(secret) == secretEnv # Unset /\ secret = secretEnv

\* C12: a submitReply request that does not carry the correct shared secret
\* (also: any request when none is configured) is answered 401 or 403 and
\* makes no store call, no publish and no insert, at the KV ingress, the
\* Pusher ingress and the callback route.
C12_WrongSecretRejected ==
    /\ \A i \in 1..Len(ing) :
          (ing[i].method = "POST" /\ ~CarriesSecret(ing[i].secret))
              => ing[i].status \in {401, 403} /\ ing[i].ops = 0
    /\ \A i \in 1..Len(psh) :
          (psh[i].method = "POST" /\ ~CarriesSecret(psh[i].secret))
              => psh[i].status \in {401, 403} /\ psh[i].ops = 0
    /\ \A i \in 1..Len(cbk) :
          ~CarriesSecret(cbk[i].secret)
              => cbk[i].status \in {401, 403} /\ cbk[i].ops = 0 /\ rows = <<>>

\* The callback route's part of C12, which the route satisfies.
CallbackSecretChecked ==
    \A i \in 1..Len(cbk) :
        ~CarriesSecret(cbk[i].secret)
            => cbk[i].status = 401 /\ cbk[i].ops = 0 /\ rows = <<>>

\* get-updates j is a GET with a well-formed sessionId.
WellFormedFetch(j) ==
    /\ fet[j].method = "GET"
    /\ fet[j].sessionId.kind = "string"
    /\ ~BadShape(fet[j].sessionId.val)

\* The store failed get-updates j: it is not configured, could not be
\* reached, or its read timed out or threw.
ReadFailed(j) ==
    \/ ~FetchKVConfigured(kvEnv)
    \/ fet[j].get \in {"unavailable", "timeout", "error"}

\* The storage-unavailable answer of get-updates.
Unavailable(body) ==
    /\ body.status \in 500..599
    /\ ~body.success
    /\ body.hasMessages /\ body.replies = <<>> /\ body.count = 0

\* C13: a fetch whose store is unconfigured or unreachable, or whose read
\* fails for any reason, answers with a 5xx status, success:false, messages []
\* and count 0; in particular never with success:true.
C13_FetchUnavailable ==
    \A j \in 1..Len(fet) :
        (WellFormedFetch(j) /\ ReadFailed(j)) => Unavailable(fet[j].body)

\* C14: a request one of whose store calls (get, set, del) timed out answers
\* 503 with success:false, and makes no store call after the one that timed
\* out, which it made once.
C14_TimeoutUnavailable ==
    /\ \A i \in 1..Len(ing) :
          /\ ing[i].get = "timeout"
                => /\ ing[i].pc = "done" /\ ing[i].ops = 1
                   /\ ing[i].status = 503 /\ ~ing[i].success
          /\ ing[i].put = "timeout"
                => /\ ing[i].pc = "done" /\ ing[i].ops = 2
                   /\ ing[i].status = 503 /\ ~ing[i].success
    /\ \A j \in 1..Len(fet) :
          /\ fet[j].get = "timeout"
                => /\ fet[j].pc = "resp" /\ fet[j].ops = 1
                   /\ fet[j].body.status = 503 /\ ~fet[j].body.success
          /\ fet[j].put = "timeout"
                => /\ fet[j].pc = "resp" /\ fet[j].ops = 2
                   /\ fet[j].body.status = 503 /\ ~fet[j].body.success

\* C14 without the delete: the read of either handler and the write of the
\* ingress, which the handlers answer with 503.
TimeoutOfGetOrSet ==
    /\ \A i \in 1..Len(ing) :
          (ing[i].get = "timeout" \/ ing[i].put = "timeout")
              => ing[i].pc = "done" /\ ing[i].status = 503 /\ ~ing[i].success
    /\ \A j \in 1..Len(fet) :
          fet[j].get = "timeout"
              => fet[j].body.status = 503 /\ ~fet[j].body.success

\* Ingress i has just carried out its write.
Stored(i) == ing[i].pc = "set" /\ ing'[i].pc = "done"

\* C15: with a value that is not a list under the session key, a fetch that
\* reads it answers 200, success:true, messages [] and count 0, and an append
\* that reads it answers 200 and leaves under the key a list that holds
\* exactly the payload just appended.
C15_CorruptBucketHeals ==
    /\ [](\A j \in 1..Len(fet) :
            fet[j].retrieved = "object"
                => /\ fet[j].pc \in {"resp", "done"}
                   /\ fet[j].body.status = 200 /\ fet[j].body.success
                   /\ fet[j].body.replies = <<>> /\ fet[j].body.count = 0)
    /\ [](\A i \in 1..Len(ing) :
            ing[i].retrieved = "object" => ing[i].status \in {0, 200})
    /\ [][\A i \in 1..Len(ing) :
            (Stored(i) /\ ing[i].retrieved = "object")
                => /\ ing'[i].status = 200 /\ ing'[i].success
                   /\ store'[ing[i].key].kind = "list"
                   /\ Rids(store'[ing[i].key].items) = <<i>>]_vars

C15_Witness ==
    \E i \in 1..Len(ing), j \in 1..Len(fet), k \in 1..Len(fet) :
        /\ fet[j].retrieved = "object" /\ fet[j].pc = "done"
        /\ ing[i].retrieved = "object" /\ Accepted(i)
        /\ j < k
        /\ Rids(fet[k].body.replies) = <<i>>

\* A get-updates call has just been made; it is the last of fet'.
Fetched == Len(fet') = Len(fet) + 1

\* Nothing live is under the key: it was never written, it was deleted, or
\* its expiry has passed.
NothingUnder(key) == key \notin DOMAIN store \/ store[key].exp <= now

\* C16: a fetch whose read finds nothing live under the session key (never
\* written, drained, or expired) answers 200, success:true, messages [] and
\* count 0, makes no store call but the read and leaves the store as it was.
C16_FetchOfNothing ==
    [][(Fetched /\ fet'[Len(fet')].get = "ok"
                /\ NothingUnder(fet'[Len(fet')].key))
          => /\ fet'[Len(fet')].pc = "resp"
             /\ fet'[Len(fet')].ops = 1
             /\ fet'[Len(fet')].body.status = 200
             /\ fet'[Len(fet')].body.success
             /\ fet'[Len(fet')].body.hasMessages
             /\ fet'[Len(fet')].body.replies = <<>>
             /\ fet'[Len(fet')].body.count = 0
             /\ store' = store]_vars

\* A fetch that found the bucket expired: a payload was accepted and never
\* returned, the key is still in the store, the answer is empty.
C16_Witness ==
    \E j \in 1..Len(fet) :
        /\ fet[j].retrieved = "null"
        /\ fet[j].expected = <<1>>
        /\ fet[j].key \in DOMAIN store
        /\ fet[j].body.status = 200 /\ fet[j].body.count = 0

\* The accepted appends of `key` so far
AppendsOf(key) == {i \in 1..Len(ing) : Accepted(i) /\ ing[i].key = key}

\* C17: the set of an accepted append puts the bucket's expiry MESSAGE_TTL
\* after the time of the set, whatever expiry the bucket had; when MESSAGE_TTL
\* has passed since every accepted append of a key, nothing is read under it;
\* and a fetch that returns a payload was issued less than MESSAGE_TTL after
\* some accepted append of its key.
C17_ExpiryRefreshed ==
    /\ [][\A i \in 1..Len(ing) :
            Stored(i) => store'[ing[i].key].exp = now + 300]_vars
    /\ [](\A i \in 1..Len(ing) :
            (ing[i].pc = "done"
             /\ \A k \in AppendsOf(ing[i].key) : now >= ing[k].setAt + 300)
                => KvGet(store, ing[i].key, now) = Null)
    /\ [](\A j \in 1..Len(fet) :
            Len(fet[j].body.replies) > 0
                => \E k \in AppendsOf(fet[j].key) :
                      /\ ing[k].setAt <= fet[j].at
                      /\ fet[j].at < ing[k].setAt + 300)

\* A second append half a TTL after the first moved the expiry, and the
\* bucket was read whole after the first expiry had passed.
C17_Witness ==
    /\ Len(ing) = 2 /\ Accepted(1) /\ Accepted(2)
    /\ ing[1].setAt = 0 /\ ing[2].setAt = TickStep
    /\ \E j \in 1..Len(fet) :
          fet[j].at = 300 /\ Rids(fet[j].body.replies) = <<1, 2>>

\* Get-updates j has just carried out its delete.
Deleted(j) == fet[j].pc = "del" /\ fet'[j].pc = "resp"

\* What a fetch for sessionId s would read now / after the step
Readable(s) == KvGet(store, <<"chat:">> \o Trim(s), now)

ReadableNext(s) == KvGet(store', <<"chat:">> \o Trim(s), now')

\* C18 as stated: a payload accepted under sessionId A is returned only by
\* fetches whose sessionId is the same string as A.
C18_SessionsIndependent ==
    \A j \in 1..Len(fet), i \in 1..Len(ing) :
        Count(fet[j].body.replies, i) > 0
            => fet[j].sessionId = ing[i].sessionId

\* C18, amended: sessions are told apart by their sessionId without the
\* surrounding blanks.  A payload accepted under A is returned only by
\* fetches whose trimmed sessionId is A trimmed, and the set of an append and
\* the delete of a drain leave what a fetch for any other trimmed sessionId
\* would read as it was.
C18_KeysIndependent ==
    /\ [](\A j \in 1..Len(fet), i \in 1..Len(ing) :
            Count(fet[j].body.replies, i) > 0
                => Trim(fet[j].sessionId.val) = Trim(ing[i].sessionId.val))
    /\ [][\A i \in 1..Len(ing), s \in SessionPool :
            (Stored(i) /\ Trim(s) # Trim(ing[i].sessionId.val))
                => ReadableNext(s) = Readable(s)]_vars
    /\ [][\A j \in 1..Len(fet), s \in SessionPool :
            (Deleted(j) /\ Trim(s) # Trim(fet[j].sessionId.val))
                => ReadableNext(s) = Readable(s)]_vars

\* A payload sits in the client's bucket while another session's bucket is
\* filled and drained.
C18_Witness ==
    /\ Len(Readable(ClientSessionId).items) = 1
    /\ \E j \in 1..Len(fet), i \in 1..Len(ing) :
          /\ Count(fet[j].body.replies, i) = 1
          /\ ing[i].sessionId.val # ClientSessionId
          /\ fet[j].sessionId.val # ClientSessionId

\* Payload i is a mailbox entry, or has been one that a fetch took.
IsEntry(i) ==
    \/ Count(Bucket(ing[i].key), i) > 0
    \/ \E j \in 1..Len(fet) :
          Count(fet[j].msgs, i) + Count(fet[j].body.replies, i) > 0

\* Two accepted submissions of one session with the same body, neither of
\* which interleaved with a fetch.
SameBodyTwice(i, k) ==
    /\ i < k
    /\ Accepted(i) /\ Accepted(k)
    /\ ing[i].key = ing[k].key /\ ing[i].reply = ing[k].reply
    /\ ~ing[i].withFet /\ ~ing[k].withFet

\* C19: two accepted submissions of one session with an identical body make
\* two mailbox entries, and when every request has been answered and the
\* bucket is empty the client's list holds both.
C19_IdenticalBothKept ==
    \A i \in 1..Len(ing), k \in 1..Len(ing) :
        SameBodyTwice(i, k)
            => /\ IsEntry(i) /\ IsEntry(k)
               /\ (AllQuiet /\ Bucket(ing[i].key) = <<>> /\ NoOverlap)
                     => Count(messages, i) = 1 /\ Count(messages, k) = 1

\* C19 for submissions that do not interleave with each other either, which
\* the handlers satisfy: nothing compares bodies.
IdenticalBothKeptInTurn ==
    \A i \in 1..Len(ing), k \in 1..Len(ing) :
        (SameBodyTwice(i, k) /\ ~ing[i].withIng /\ ~ing[k].withIng)
            => IsEntry(i) /\ IsEntry(k)

\* C24: a reply the Pusher ingress answers with 200 has been published on
\* the session's channel and has been saved: a row was inserted, or the store
\* holds something it did not hold before.
C24_PushPersisted ==
    \A i \in 1..Len(psh) :
        (psh[i].method = "POST" /\ psh[i].status = 200)
            => /\ \E n \in 1..Len(channel) :
                     /\ channel[n].reply = psh[i].reply.val
                     /\ channel[n].sessionId = Trim(psh[i].sessionId.val)
               /\ (Len(rows) > 0 \/ store \notin InputStores)

\* The publish half of C24, which the handler satisfies.
PushPublished ==
    \A i \in 1..Len(psh) :
        (psh[i].method = "POST" /\ psh[i].status = 200)
            => \E n \in 1..Len(channel) :
                  /\ channel[n].channel
                        = <<"private-bot-">> \o Trim(psh[i].sessionId.val)
                  /\ channel[n].reply = psh[i].reply.val

\* C25: with receive-response over Pusher and get-updates over the KV store,
\* a reply POSTed for the client's session and answered 200 is among the
\* messages of the next get-updates call for that session.
C25_PublishedThenFetched ==
    \A i \in 1..Len(psh) :
        (/\ psh[i].status = 200
         /\ Len(fet) > psh[i].fetches
         /\ fet[psh[i].fetches + 1].pc \in {"resp", "done"})
            => \E n \in 1..Len(fet[psh[i].fetches + 1].body.replies) :
                  fet[psh[i].fetches + 1].body.replies[n].reply
                      = psh[i].reply.val

---------------------------------------------------------------------------
(* Properties of the Supabase client *)

CountId(list, id) == Cardinality({i \in 1..Len(list) : list[i].id = id})

Position(list, id) == CHOOSE i \in 1..Len(list) : list[i].id = id

\* The step in which handleSend takes the saved record from the response.
SendConfirmed == send.pc = "ok" /\ send'.pc = "idle"

\* C6: when handleSend has processed the saved record of its message (no clear
\* was asked for meanwhile), the visible list holds the saved record exactly
\* once and no entry with the provisional id.
C6_ConfirmedExactlyOnce ==
    [][(SendConfirmed /\ calls.clears = 0)
          => /\ CountId(chats', send.saved.id) = 1
             /\ CountId(chats', send.optimisticId) = 0]_vars

\* C7: an INSERT event whose id is in the seen-ids set changes neither the
\* visible list nor the seen-ids set.
C7_SeenEventDropped ==
    [][(/\ Len(events) > 0
        /\ Len(events') < Len(events)
        /\ Head(events).id \in sentMessageIds)
          => chats' = chats /\ sentMessageIds' = sentMessageIds]_vars

C7_Witness ==
    /\ last = "seen"
    /\ \E i \in 1..Len(chats) :
          chats[i].sender = "bot" /\ chats[i].id \in sentMessageIds

\* C8: when the send completes successfully, the sent message and every bot
\* reply the subscription appended while the send was in flight are each in
\* the visible list exactly once, the sent message before the reply.
C8_ReplyDuringSend ==
    [][SendConfirmed
          => \A r \in send.during :
                /\ CountId(chats', send.saved.id) = 1
                /\ CountId(chats', r) = 1
                /\ Position(chats', send.saved.id) < Position(chats', r)]_vars

\* The step in which handleSend leaves its try / catch / finally.
SendCompleted == send.pc \in {"ok", "failed"} /\ send'.pc = "idle"

IsProvisional(c) == c.id[1] = "optimistic"

\* C20: when handleSend has processed the answer of its request, no entry
\* with a provisional id is in the visible list and the sending flag is
\* cleared; after a failed request, moreover, an error is set.  No
\* provisional entry is in the list while no send is in progress.
C20_NoProvisionalLeft ==
    /\ [][SendCompleted
            => /\ \A n \in 1..Len(chats') : ~IsProvisional(chats'[n])
               /\ ~sending'
               /\ send.pc = "failed" => error' # "null"]_vars
    /\ [](send.pc = "idle"
            => \A n \in 1..Len(chats) : ~IsProvisional(chats[n]))

\* A send that failed after one that succeeded: the saved message stays.
C20_Witness ==
    /\ last = "sendFailed"
    /\ calls.sends = 2
    /\ ~sending /\ error # "null"
    /\ Len(chats) = 1 /\ chats[1].id = Uuid(0)

\* The INSERT callback has just run on the event at the head of the queue.
Delivered == Len(events) > 0 /\ events' = Tail(events)

\* C21: a send confirmation keeps the list's length, puts the saved record
\* where the provisional entry was and leaves every other entry where and
\* as it was; a delivery leaves the list as it was or adds the delivered
\* message as its last entry.
C21_NoReorder ==
    /\ [][SendConfirmed
            => /\ Len(chats') = Len(chats)
               /\ \A n \in 1..Len(chats) :
                     IF chats[n].id = send.optimisticId
                     THEN chats'[n] = send.saved
                     ELSE chats'[n] = chats[n]]_vars
    /\ [][Delivered
            => \/ chats' = chats
               \/ /\ Len(chats') = Len(chats) + 1
                  /\ SubSeq(chats', 1, Len(chats)) = chats
                  /\ chats'[Len(chats')] = Head(events)]_vars

\* The only send was confirmed after a reply had been appended behind its
\* provisional entry: the saved record is first, the reply second.
C21_Witness ==
    /\ last = "sendOk"
    /\ calls.sends = 1
    /\ Len(chats) = 2
    /\ chats[1].sender = "user" /\ chats[1].id[1] = "uuid"
    /\ chats[2].sender = "bot"

\* C22 as stated: the INSERT callback appends every event of the client's
\* module whose id is not in the seen-ids set, and adds the id to the set.
C22_UnseenAppended ==
    [][(Delivered /\ Head(events).module = Module
                  /\ Head(events).id \notin sentMessageIds)
          => /\ chats' = chats \o <<Head(events)>>
             /\ sentMessageIds' = sentMessageIds \cup {Head(events).id}]_vars

\* C22, amended: the INSERT callback appends every bot message of the
\* client's module whose id is not in the seen-ids set at the tail of the
\* list, so in arrival order, and adds the id to the set; an event of a
\* user message changes neither.
C22_UnseenBotAppended ==
    [][(Delivered /\ Head(events).module = Module
                  /\ Head(events).id \notin sentMessageIds)
          => IF Head(events).sender = "bot"
             THEN /\ chats' = chats \o <<Head(events)>>
                  /\ sentMessageIds' = sentMessageIds \cup {Head(events).id}
             ELSE /\ chats' = chats
                  /\ sentMessageIds' = sentMessageIds]_vars

\* Two replies delivered before the initial load has answered, in the order
\* they were inserted.
C22_Witness ==
    /\ loading
    /\ Len(chats) = 2
    /\ chats[1].sender = "bot" /\ chats[2].sender = "bot"
    /\ chats[1].id = Uuid(0) /\ chats[2].id = Uuid(1)
    /\ {Uuid(0), Uuid(1)} \subseteq sentMessageIds

\* C23: once the initial load has completed without error, every bot reply
\* of the client's module that the table held when the client mounted is in
\* the visible list, whatever the number of rows.
C23_LoggedReplyLoaded ==
    (load.pc = "done" /\ error = "null")
        => \A n \in 1..Len(rows) :
              (rows[n].module = Module /\ rows[n].sender = "bot")
                  => CountId(chats, rows[n].id) = 1

\* C23 for a log of at most 100 rows of the module, where the load returns
\* every row.
ShortLogLoaded ==
    (load.pc = "done" /\ error = "null" /\ Len(SelectChats(rows)) = Len(rows))
        => \A n \in 1..Len(rows) :
              rows[n].module = Module => CountId(chats, rows[n].id) = 1

\* C9: no two entries of the visible list share an id.
C9_UniqueIds ==
    \A i \in 1..Len(chats), j \in 1..Len(chats) :
        i < j => chats[i].id # chats[j].id

\* Two sends within one millisecond: the first confirmed, the second pending
\* under the provisional id the first one had.
C9_Witness ==
    /\ calls.sends = 2
    /\ clock = 0
    /\ Len(chats) = 2
    /\ chats[1].id = Uuid(0)
    /\ chats[2].id = OptimisticId(0)
    /\ send.optimisticId = OptimisticId(0)

\* The positions of the batch whose file validated, decoded and uploaded.
Uploaded(files) == {k \in 1..Len(files) : files[k] = "ok"}

FailedPoll(r) == r.pc = "done" /\ r.client /\ (r.fate # "ok" \/ ~r.body.success)

PollFails(j) ==
    /\ j \in 1..Len(fet)
    /\ fet[j].pc = "resp"
    /\ fet'[j].pc = "done"
    /\ (fet'[j].fate # "ok" \/ ~fet[j].body.success)

\* C27: a poll whose fetch throws, whose body does not parse or which reads
\* success:false leaves the list and the interval as they were; while the
\* interval runs a further tick can fetch; and the interval is only ever
\* cleared by the unmount.
C27_FailedPollHarmless ==
    /\ [][\A j \in 1..Len(fet) :
            PollFails(j) => messages' = messages /\ poller' = poller]_vars
    /\ [](poller.interval /\ PollingCalls < MaxPollingCalls => ENABLED PollAny)
    /\ [][poller.interval /\ ~poller'.interval
            => ~poller.unmounted /\ poller'.unmounted]_vars

C27_Witness ==
    \E j \in 1..Len(fet) :
        /\ FailedPoll(fet[j])
        /\ fet[j].fate = "throws"
        /\ Len(fet[j].body.replies) > 0
        /\ Len(fet) > j
        /\ fet[j + 1].client
        /\ poller.interval

\* C28: in the polling client, whenever isLoading is set it is cleared again
\* (or the component is gone), also when the worker posts no reply and when
\* every poll fails.
C28_LoadingCleared ==
    poller.isLoading ~> (~poller.isLoading \/ poller.unmounted)

\* C29: a send whose endpoint never answers is given up after a bounded wait:
\* the provisional entry is removed and the sending flag is cleared.
C29_SendGivenUp ==
    (sending /\ send.pc = "sent")
        ~> (~sending /\ \A i \in 1..Len(chats) : ~IsProvisional(chats[i]))

\* C30: every get-updates answer that carries messages carries a count equal
\* to their number, whatever its status.
C30_CountIsLength ==
    \A j \in 1..Len(fet) :
        (fet[j].pc \in {"resp", "done"} /\ fet[j].body.hasMessages)
            => fet[j].body.count = Len(fet[j].body.replies)

C30_Witness ==
    \E j \in 1..Len(fet) :
        /\ fet[j].pc = "resp"
        /\ fet[j].body.status = 200
        /\ fet[j].body.count = 1
        /\ Len(fet[j].body.replies) = 1

\* C31: an ingress call answered 200 leaves under its key every payload the
\* bucket held just before the call's write, followed by the new payload, also
\* when the call's read of the bucket failed with an error other than a timeout.
C31_WriteKeepsStored ==
    [][\A i \in 1..Len(ing) :
          (ing[i].pc = "set" /\ ing'[i].pc = "done" /\ ing'[i].status = 200)
              => KvGet(store', ing[i].key, now).items
                     = AsArray(KvGet(store, ing[i].key, now))
                           \o <<Message(ing[i], i)>>]_vars

\* What a get-updates call read from the bucket.
ReadBy(r) == IF r.pc = "del" THEN Replies(r.msgs) ELSE r.body.replies

DeleteFailed(r) == r.put \in {"error", "timeout"}

\* The call answers 200 with what it read, and the next call reads it again.
ReadAgain(j) ==
    /\ fet[j].body.status = 200
    /\ fet[j].body.success
    /\ Len(fet[j].body.replies) > 0
    /\ Len(fet) > j
          => /\ Len(ReadBy(fet[j + 1])) >= Len(fet[j].body.replies)
             /\ SubSeq(ReadBy(fet[j + 1]), 1, Len(fet[j].body.replies))
                    = fet[j].body.replies

\* C32 as stated: whenever the delete after a read fails or times out, fetch
\* answers 200 with the messages read, and they stay in the store and are
\* returned again by the next fetch of the session.
C32_FailedDeleteKeeps ==
    \A j \in 1..Len(fet) : DeleteFailed(fet[j]) => ReadAgain(j)

\* C32: whenever the delete after a read fails or times out, fetch answers 200
\* with the messages read; when the store did not carry the delete out, they
\* stay in the store and are returned again by the next fetch of the session.
C32_UndoneDeleteKeeps ==
    \A j \in 1..Len(fet) :
        DeleteFailed(fet[j])
            => /\ fet[j].body.status = 200
               /\ fet[j].body.success
               /\ Len(fet[j].body.replies) > 0
               /\ ~fet[j].cleared => ReadAgain(j)

C32_Witness ==
    \E j \in 1..Len(fet) :
        /\ DeleteFailed(fet[j])
        /\ ~fet[j].cleared
        /\ Len(fet) > j
        /\ fet[j + 1].pc = "resp"
        /\ fet[j + 1].body.replies = fet[j].body.replies

\* The step in which fetchChats sets the list from the rows it selected.
LoadCompleted == load.pc = "data" /\ load'.pc = "done"

\* C33: a bot reply the subscription has put in the list while the initial
\* load was in flight is in the list exactly once after the load has set it.
C33_DeliveredSurvivesLoad ==
    [][LoadCompleted
          => \A n \in 1..Len(chats) :
                chats[n].sender = "bot" => CountId(chats', chats[n].id) = 1]_vars

\* The step in which POST /api/chat/send answers with an error status.
SendRejected == send.pc = "sent" /\ send'.pc = "failed"

\* C34: a request that POST /api/chat/send answers with an error status has
\* inserted no row into the chats table.
C34_ErrorPersistsNothing ==
    [][SendRejected => rows' = rows]_vars

\* C35: the id of every entry of the visible list that is not provisional is
\* in the seen-ids set.
C35_ListedIdsSeen ==
    \A n \in 1..Len(chats) :
        ~IsProvisional(chats[n]) => chats[n].id \in sentMessageIds

\* A loaded reply and a confirmed send are in the list.
C35_Witness ==
    /\ last = "sendOk"
    /\ load.pc = "done"
    /\ \E n \in 1..Len(chats) : chats[n].sender = "bot"
    /\ \E n \in 1..Len(chats) :
          chats[n].sender = "user" /\ ~IsProvisional(chats[n])

\* The part of a store key after "chat:" passes the shape check.
KeyShapeOk(key) == Len(key) > 0 => ~SessionIdBadFormat(Str(Tail(key)))

\* C36: the session part of every key the ingress writes or fetch reads, and
\* of every channel the push ingress publishes to, passes the shape check (at
\* least MinSessionIdLength characters, one of them alphanumeric).
C36_KeyPassesShapeCheck ==
    /\ \A i \in 1..Len(ing) : KeyShapeOk(ing[i].key)
    /\ \A j \in 1..Len(fet) : KeyShapeOk(fet[j].key)
    /\ \A n \in 1..Len(channel) :
          ~SessionIdBadFormat(Str(channel[n].sessionId))

\* C37: no file the callback uploads has decoded content larger than
\* MAX_FILE_SIZE, whatever size the request declares.
C37_UploadWithinCeiling ==
    \A i \in 1..Len(cbk) :
        cbk[i].uploaded => cbk[i].uploadedSize <= MAX_FILE_SIZE

\* The text from the last '.' of the lower-cased filename.
LoweredExtension(filename) ==
    LET lower == ToLowerCase(filename)
    IN  IF LastIndexOf(lower, ".") < 0 THEN <<>>
        ELSE Slice(lower, LastIndexOf(lower, "."))

\* C38: validateFile answers valid exactly when the size is at most
\* MAX_FILE_SIZE, the text from the last '.' of the lower-cased filename is
\* not a blocked extension and the lower-cased type is allowed; an invalid
\* answer names the first failing check in the order size, extension, type.
C38_ValidateFileExact ==
    \A i \in 1..Len(cbk) :
        LET f == cbk[i].file
            sizeOk == cbk[i].fileSize <= MAX_FILE_SIZE
            extOk == LoweredExtension(f.name) \notin BLOCKED_EXTENSIONS
            mimeOk == LowerMime(f.mimeType) \in ALLOWED_MIME_TYPES
        IN  /\ cbk[i].validation.valid <=> (sizeOk /\ extOk /\ mimeOk)
            /\ cbk[i].validation.error =
                  (IF ~sizeOk THEN "size"
                   ELSE IF ~extOk THEN "extension"
                   ELSE IF ~mimeOk THEN "mime"
                   ELSE "none")

\* A callback request whose body lacks a required field or names no module.
BadCallbackBody(r) ==
    ~r.userId \/ r.module = "" \/ ~r.message \/ r.module \notin Modules

\* C39: the callback answers a request without the right secret 401 whatever
\* its body; with the right secret, a body that lacks user_id, module or
\* message, or names a module that is not configured, is answered 400, and no
\* file is uploaded and no row inserted.
C39_BadBodyRejected ==
    \A i \in 1..Len(cbk) :
        /\ (secretEnv = Unset \/ cbk[i].secret # secretEnv)
              => cbk[i].status = 401
        /\ (secretEnv # Unset /\ cbk[i].secret = secretEnv /\ BadCallbackBody(cbk[i]))
              => /\ cbk[i].status = 400
                 /\ cbk[i].uploads = 0
                 /\ cbk[i].ops = 0
                 /\ rows = <<>>

C39_Witness ==
    \E i \in 1..Len(cbk) :
        /\ cbk[i].secret = secretEnv
        /\ cbk[i].module = "zz"
        /\ cbk[i].userId /\ cbk[i].message
        /\ cbk[i].files = <<"ok", "ok">>
        /\ cbk[i].status = 400
        /\ rows = <<>>

\* The step in which handleClearChats leaves its try / catch / finally.
ClearCompleted == clr.pc \in {"ok", "failed"} /\ clr'.pc = "idle"

\* C40: when handleClearChats has processed the answer of its delete, the list
\* and the seen-ids set are both empty if the delete succeeded, and both as
\* they were, with an error set, if it failed; the clearing flag is reset.
C40_ClearAllOrNothing ==
    [][ClearCompleted
          => /\ ~clearing'
             /\ clr.pc = "ok" => chats' = <<>> /\ sentMessageIds' = {}
             /\ clr.pc = "failed"
                   => /\ chats' = chats
                      /\ sentMessageIds' = sentMessageIds
                      /\ error' # "null"]_vars

\* A failed clear has left a loaded list as it was.
C40_Witness ==
    /\ error = "Failed to clear messages"
    /\ ~clearing
    /\ clr.pc = "idle"
    /\ Len(chats) > 0
    /\ Ids(chats) \subseteq sentMessageIds
====
